---- MODULE Spec2Model ----
(***************************************************************************)
(* Drive_Backup.py: upload_folder_of_videos fans the .mp4 files of a       *)
(* folder out to a ThreadPoolExecutor; every pool task runs                *)
(* _upload_with_resumable, a resumable chunked upload with retry and       *)
(* exponential backoff; the dispatching thread collects the futures with   *)
(* as_completed. Before the fan-out the destination folder is resolved by   *)
(* _ensure_drive_folder, unless the caller names it by its ID; every       *)
(* thread talks to the remote through its own Drive service.               *)
(* main.py: upload_files_concurrently hands every file to upload_file on a *)
(* pool of five threads; upload_file uploads in one execute() and calls    *)
(* itself again when anything fails.                                       *)
(***************************************************************************)
EXTENDS Integers, Sequences, FiniteSets, TLC

(* ---------------- program constants (Drive_Backup.py CONFIG) ----------- *)
MAX_WORKERS == 4
\* 8 MiB, counted in units of 4 MiB
CHUNK_SIZE == 2
MAX_RETRIES == 8
\* backoff = 1.0
INITIAL_BACKOFF == 1
\* min(backoff * 2, 32)
BACKOFF_CAP == 32
\* main.py: max_threads=5
MAX_THREADS == 5

(* ---------------- bounds of the model ---------------------------------- *)
\* files in the source folder
MaxFiles == 2
\* files beyond the pool's size, for the runs that fill the pool
MaxQueued == 1
\* size of a file, in units of 4 MiB
MaxSize == 5
\* transient faults the remote injects into the upload of a run that is
\* repeated
MaxFaults == 1
\* folders in the drive before the first run
MaxFolders == 2
\* runs of the program after the first, over the same drive
MaxReruns == 1
\* nested calls of upload_file the interpreter allows on a thread
\* (sys.getrecursionlimit() is 1000 when main.py runs)
MaxDepth == 2

(* ---------------- Python values and exceptions ------------------------- *)
PyNone == [tag |-> "none", v |-> 0]
PyInt(i) == [tag |-> "int", v |-> i]
\* an httplib2 Response whose status is s
PyResp(s) == [tag |-> "resp", v |-> s]

Truthy(x) == \/ x.tag = "int" /\ x.v # 0
             \/ x.tag = "resp"
PyOr(a, b) == IF Truthy(a) THEN a ELSE b
PyAnd(a, b) == IF Truthy(a) THEN b ELSE a

\* getattr(x, "status", None)
GetStatus(x) == IF x.tag = "resp" THEN PyInt(x.v) ELSE PyNone
\* getattr(x, "status_code", None): ints and httplib2 responses have none;
\* HttpError.status_code is resp.status, and fails (default None) without resp
GetStatusCode(x) == PyNone
ExcStatusCode(e) == IF e.resp.tag = "resp" THEN PyInt(e.resp.v) ELSE PyNone

\* an exception: its class, its resp, and the reason the service gives in
\* the body of its answer
NoExc == [kind |-> "none", resp |-> PyNone, reason |-> ""]
HttpError(r) == [kind |-> "HttpError", resp |-> r, reason |-> ""]
\* an exception that is not an HttpError: socket error, FileNotFoundError
OSError == [kind |-> "OSError", resp |-> PyNone, reason |-> ""]
\* the two kinds of 403 the service answers with: too many requests, and
\* no right to write there
RateLimited == [HttpError(PyResp(403)) EXCEPT !.reason = "rateLimitExceeded"]
Denied == [HttpError(PyResp(403)) EXCEPT !.reason = "insufficientFilePermissions"]

RETRYABLE == {403, 408, 429, 500, 502, 503, 504}
\* other statuses the service answers with; 0 stands for a missing status
PermanentCodes == {0, 400, 401, 404}

(* ---------------- _upload_with_resumable: pure parts ------------------- *)
\* lines 137-139: best-effort extraction of the HTTP status
ExtractCode(e) ==
    LET c1 == PyOr(ExcStatusCode(e), e.resp)
        c2 == PyOr(PyOr(GetStatus(c1), GetStatusCode(c1)),
                   PyAnd(e.resp, GetStatus(e.resp)))
        c3 == PyOr(c2, PyInt(0))
    IN c3.v

\* line 141
ShouldRetryNoCeiling(code, tries) == code \in RETRYABLE
ShouldRetryOffByOne(code, tries) == code \in RETRYABLE /\ tries <= MAX_RETRIES
ShouldRetryAnyCode(code, tries) == tries < MAX_RETRIES
ShouldRetry(code, tries) == code \in RETRYABLE /\ tries < MAX_RETRIES

Min(a, b) == IF a < b THEN a ELSE b
\* line 145
NextBackoffUncapped(b) == b * 2
NextBackoff(b) == Min(b * 2, BACKOFF_CAP)

\* line 142
IncTriesForgotten(n) == n
IncTries(n) == n + 1

\* line 136: except HttpError
IsHttpErrorAll(e) == TRUE
IsHttpError(e) == e.kind = "HttpError"

\* line 184: except Exception
CaughtHttpOnly(e) == e.kind = "HttpError"
Caught(e) == e.kind \in {"HttpError", "OSError"}

(* ---------------- _gather_mp4s ----------------------------------------- *)
RECURSIVE Insert(_, _)
Insert(x, s) ==
    IF s = <<>> THEN <<x>>
    ELSE IF x <= Head(s) THEN <<x>> \o s
    ELSE <<Head(s)>> \o Insert(x, Tail(s))

RECURSIVE Sorted(_)
Sorted(s) == IF s = <<>> THEN <<>> ELSE Insert(Head(s), Sorted(Tail(s)))

\* line 152: sorted(p.glob("*.mp4"))
GatherUnsorted(listing) == listing
Gather(listing) == Sorted(listing)

(* ---------------- ThreadPoolExecutor ----------------------------------- *)
\* line 172: max_workers
CanSpawnOneMore(threads) == threads <= MAX_WORKERS
CanSpawn(threads) == threads < MAX_WORKERS

\* the work queue after a worker took its head
RestKept(q) == q
Rest(q) == Tail(q)

VARIABLES
    pc,        \* the dispatching thread: gather, submit, collect, returned, raised
    glob,      \* the .mp4 files as p.glob("*.mp4") yields them, in filesystem order
    nfiles,    \* number of .mp4 files in the folder
    size,      \* size of each file
    codes,     \* HTTP statuses the remote answers with in this run
    faults,    \* transient faults the remote may still inject (-1: no limit)
    partial,   \* the remote may keep a part of a chunk whose request fails
    flaky,     \* files whose requests the remote answers with transient statuses
    gone,      \* files that disappear between the enumeration and the open
    files,     \* the sorted list of line 164
    submitted, \* tasks in the order pool.submit was called
    queue,     \* the pool's work queue
    worker,    \* per pool thread: the task it runs, 0 when idle
    idleSem,   \* the pool's idle semaphore
    fut,       \* per task: the state of its future
    task,      \* per task: its arguments, the locals of _upload_with_resumable
               \* while it runs, its request, the remote session, and the
               \* history of the run
    snapshot,  \* as_completed: futures found finished on entry, not yet yielded
    waiting,   \* as_completed: the waiter is installed
    waiterQ,   \* as_completed: waiter.finished_futures
    uncollected, \* finished futures not yet yielded, in the order they finished
    results,   \* the list returned
    printed,   \* the outcome lines printed, in order
    parent,    \* parent_folder_id, 0 for None
    dname,     \* drive_folder_name, 0 for None
    folders,   \* the folders of the drive; a folder's ID is its place in the list
    rfaults,   \* folder requests the remote may still fail
    runsLeft,  \* runs of the program still to come after this one
    target,    \* target_folder_id, 0 while unset
    log,       \* the folder requests this run made, in order
    resolved,  \* the IDs _ensure_drive_folder returned, over all runs
    service,   \* per thread (0: the dispatching thread): _thread_local.drive_service
    built,     \* per thread: the services it has built in this run
    waited     \* main.py: the futures whose result() has returned

\* the inputs of a run and the remote's folders
folderVars == <<parent, dname, folders, rfaults, runsLeft, target, log, resolved>>
svcVars == <<service, built>>

vars == <<pc, glob, nfiles, size, codes, faults, partial, flaky, gone, files, submitted, queue, worker,
          idleSem, fut, task, snapshot, waiting, waiterQ, uncollected, results,
          printed, folderVars, svcVars, waited>>

Tasks == 1..nfiles

NewTask == [pc |-> "new", tries |-> 0, backoff |-> 0,
            uri |-> FALSE, progress |-> 0, err |-> FALSE,
            sessions |-> 0, acked |-> 0, received |-> 0, stored |-> FALSE,
            calls |-> 0, failed |-> 0, sleeps |-> <<>>, execs |-> 0,
            start |-> -1, ackedBefore |-> -1, exc |-> NoExc,
            parent |-> 0, svc |-> 0, depth |-> 0]

\* the files of a folder are named by their rank in lexicographic order
Reversed(n) == [i \in 1..n |-> n + 1 - i]
Perms(n) == {p \in [1..n -> 1..n] : \A i, j \in 1..n : i # j => p[i] # p[j]}

\* folder names are 1 and 2; the drive holds folders made before the run
FolderNames == {1, 2}
Folder(n, tr, who) == [name |-> n, trashed |-> tr, by |-> who]
RECURSIVE SeqsUpTo(_, _)
SeqsUpTo(S, n) ==
    IF n = 0 THEN {<<>>}
    ELSE SeqsUpTo(S, n - 1) \cup
         {Append(q, x) : q \in {r \in SeqsUpTo(S, n - 1) : Len(r) = n - 1}, x \in S}
Drives(n) == SeqsUpTo({Folder(m, tr, "before") : m \in FolderNames, tr \in BOOLEAN}, n)

\* no folder named, an empty drive that answers every folder request, one run
OneRunEmptyDrive ==
    /\ parent = 0
    /\ dname = 1
    /\ folders = <<>>
    /\ rfaults = 0
    /\ runsLeft = 0

InitCommon ==
    /\ pc = "resolve"
    /\ waited = 0
    /\ target = 0 /\ log = <<>> /\ resolved = <<>>
    /\ service = [w \in 0..(MAX_WORKERS + 1) |-> 0]
    /\ built = [w \in 0..(MAX_WORKERS + 1) |-> 0]
    /\ files = <<>> /\ submitted = <<>> /\ queue = <<>>
    /\ worker = <<>> /\ idleSem = 0
    /\ fut = [t \in Tasks |-> "new"]
    /\ task = [t \in Tasks |-> NewTask]
    /\ snapshot = {} /\ waiting = FALSE /\ waiterQ = <<>>
    /\ uncollected = <<>> /\ results = <<>> /\ printed = <<>>

\* a batch: up to MaxFiles one-chunk files, a remote that answers 404 and
\* throttles the uploads of one file at most with 503
Init ==
    /\ nfiles \in 0..MaxFiles
    /\ glob = Reversed(nfiles)
    /\ size = [t \in Tasks |-> 1]
    /\ codes = {503, 404}
    /\ faults = -1
    /\ partial = FALSE
    /\ flaky \in {F \in SUBSET Tasks : Cardinality(F) <= 1}
    /\ gone \in SUBSET Tasks
    /\ OneRunEmptyDrive
    /\ InitCommon

\* a batch of more files than the pool has threads, a remote that answers a
\* request for the first file with 503 once
InitPool ==
    /\ nfiles \in (MAX_WORKERS + 1)..(MAX_WORKERS + MaxQueued)
    /\ glob = Reversed(nfiles)
    /\ size = [t \in Tasks |-> 1]
    /\ codes = {503}
    /\ faults = 1
    /\ partial = FALSE
    /\ flaky = {1}
    /\ gone = {}
    /\ OneRunEmptyDrive
    /\ InitCommon

\* a batch whose first file, of one or two chunks, the remote throttles
\* without limit
InitThrottled ==
    /\ nfiles \in 1..MaxFiles
    /\ glob = Reversed(nfiles)
    /\ size \in {f \in [Tasks -> 1..(CHUNK_SIZE + 1)] : \A t \in Tasks \ {1} : f[t] = 1}
    /\ codes = {503, 404}
    /\ faults = -1
    /\ partial = FALSE
    /\ flaky = {1}
    /\ gone \in SUBSET Tasks
    /\ OneRunEmptyDrive
    /\ InitCommon

\* a folder enumerated in any order, a remote that answers 503 once
InitOrder ==
    /\ nfiles \in 0..(MaxFiles + 1)
    /\ glob \in Perms(nfiles)
    /\ size = [t \in Tasks |-> 1]
    /\ codes = {503}
    /\ faults = 1
    /\ partial = FALSE
    /\ flaky = Tasks
    /\ gone = {}
    /\ OneRunEmptyDrive
    /\ InitCommon

\* one file of any size, a remote that answers with any status, without limit
InitEngine ==
    /\ nfiles = 1
    /\ glob = <<1>>
    /\ size \in [Tasks -> 1..MaxSize]
    /\ codes = RETRYABLE \cup PermanentCodes \cup {-1, -2, -3}
    /\ faults = -1
    /\ partial = TRUE
    /\ flaky = Tasks
    /\ gone \in SUBSET Tasks
    /\ OneRunEmptyDrive
    /\ InitCommon

\* a folder of at most one file, run several times over a drive that holds
\* any folders and may fail a folder request; the destination is given by
\* its ID, by its name, or not at all
InitRuns ==
    /\ nfiles \in 0..1
    /\ glob = Reversed(nfiles)
    /\ size = [t \in Tasks |-> 1]
    /\ codes = {503}
    /\ faults = MaxFaults
    /\ partial = FALSE
    /\ flaky = Tasks
    /\ gone = {}
    /\ parent \in 0..MaxFolders
    /\ dname \in {0} \cup FolderNames
    /\ folders \in Drives(MaxFolders)
    /\ rfaults \in 0..1
    /\ runsLeft = MaxReruns
    /\ InitCommon

(* ---------------- _make_service_for_thread ----------------------------- *)
\* line 34: _thread_local keeps one slot per thread
CacheKeyShared(w) == 0
CacheKey(w) == w

\* a service is named after the thread that built it and its rank among the
\* services of that thread; 0 is None
Instance(w, n) == (n - 1) * (MAX_WORKERS + 2) + w + 1
Owner(i) == (i - 1) % (MAX_WORKERS + 2)

\* lines 69-83 on thread w: the cached service, or a new one, cached
ServiceAfter(w) ==
    IF service[CacheKey(w)] # 0 THEN service
    ELSE [service EXCEPT ![CacheKey(w)] = Instance(w, built[w] + 1)]
BuiltAfter(w) ==
    IF service[CacheKey(w)] # 0 THEN built ELSE [built EXCEPT ![w] = @ + 1]
\* the service the call returns
ServiceFor(w) == ServiceAfter(w)[CacheKey(w)]

(* ---------------- _ensure_drive_folder --------------------------------- *)
\* the name of the local folder, Path(local_folder).name
LocalName == 2

\* line 157: if parent_folder_id
NeverResolves(p) == FALSE
AlwaysResolves(p) == TRUE
NeedsResolution(p) == p = 0

\* lines 160-161
FolderName == IF dname # 0 THEN dname ELSE LocalName

\* line 96: the folders the query matches
MatchesTrashedToo(fs, n) == {i \in 1..Len(fs) : fs[i].name = n}
Matches(fs, n) == {i \in 1..Len(fs) : fs[i].name = n /\ ~fs[i].trashed}

\* line 100, line 110: a folder request that raises ends the function
SwallowsFailure(failed) == FALSE
RaisesOnFailure(failed) == failed

\* the folders _ensure_drive_folder made
Created == {i \in 1..Len(folders) : folders[i].by = "run"}

\* lines 157-104: no folder ID was given; the folders of that name are listed
\* through the dispatching thread's service, in an order the remote chooses,
\* and the first one listed is taken
ListFolders ==
    /\ pc = "resolve"
    /\ NeedsResolution(parent)
    /\ service' = ServiceAfter(0)
    /\ built' = BuiltAfter(0)
    /\ log' = Append(log, "list")
    /\ \/ /\ rfaults > 0
          /\ rfaults' = rfaults - 1
          /\ pc' = IF RaisesOnFailure(TRUE) THEN "aborted" ELSE "gather"
          /\ UNCHANGED <<target, resolved>>
       \/ /\ \E i \in Matches(folders, FolderName) :
                /\ target' = i
                /\ resolved' = Append(resolved, i)
          /\ pc' = "gather"
          /\ UNCHANGED rfaults
       \/ /\ Matches(folders, FolderName) = {}
          /\ pc' = "create"
          /\ UNCHANGED <<target, resolved, rfaults>>
    /\ UNCHANGED <<glob, nfiles, size, codes, faults, partial, flaky, gone, files, submitted, queue,
                   worker, idleSem, fut, task, snapshot, waiting, waiterQ, uncollected,
                   results, printed, parent, dname, folders, runsLeft, waited>>

\* lines 106-111: the listing was empty; the folder is created. A request that
\* fails may have created the folder all the same.
CreateFolder ==
    /\ pc = "create"
    /\ log' = Append(log, "create")
    /\ LET made == Append(folders, Folder(FolderName, FALSE, "run")) IN
       \/ /\ folders' = made
          /\ target' = Len(made)
          /\ resolved' = Append(resolved, Len(made))
          /\ pc' = "gather"
          /\ UNCHANGED rfaults
       \/ /\ rfaults > 0
          /\ rfaults' = rfaults - 1
          /\ folders' \in {folders, made}
          /\ pc' = IF RaisesOnFailure(TRUE) THEN "aborted" ELSE "gather"
          /\ UNCHANGED <<target, resolved>>
    /\ UNCHANGED <<glob, nfiles, size, codes, faults, partial, flaky, gone, files, submitted, queue,
                   worker, idleSem, fut, task, snapshot, waiting, waiterQ, uncollected,
                   results, printed, parent, dname, runsLeft, svcVars, waited>>

(* ---------------- the dispatching thread ------------------------------- *)
\* lines 157-158 when the folder's ID was given, and lines 164-169
GatherFiles ==
    /\ \/ pc = "gather" /\ UNCHANGED target
       \/ pc = "resolve" /\ ~NeedsResolution(parent) /\ target' = parent
    /\ files' = Gather(glob)
    /\ pc' = IF files' = <<>> THEN "returned" ELSE "submit"
    /\ UNCHANGED <<glob, nfiles, size, codes, faults, partial, flaky, gone, submitted, queue, worker, idleSem,
                   fut, task, snapshot, waiting, waiterQ, uncollected, results,
                   printed, parent, dname, folders, rfaults, runsLeft, log, resolved,
                   svcVars, waited>>

\* lines 173-176: pool.submit for the next file; the pool starts a thread when
\* none is idle and fewer than max_workers run
Submit ==
    /\ pc = "submit"
    /\ Len(submitted) < Len(files)
    /\ LET t == files[Len(submitted) + 1] IN
        /\ submitted' = Append(submitted, t)
        /\ queue' = Append(queue, t)
        /\ fut' = [fut EXCEPT ![t] = "queued"]
        /\ task' = [task EXCEPT ![t].parent = target]
    /\ IF idleSem > 0
       THEN idleSem' = idleSem - 1 /\ worker' = worker
       ELSE /\ idleSem' = idleSem
            /\ worker' = IF CanSpawn(Len(worker)) THEN Append(worker, 0) ELSE worker
    /\ UNCHANGED <<pc, glob, nfiles, size, codes, faults, partial, flaky, gone, files, snapshot,
                   waiting, waiterQ, uncollected, results, printed, folderVars, svcVars, waited>>

RECURSIVE Without(_, _)
Without(s, x) ==
    IF s = <<>> THEN <<>>
    ELSE IF Head(s) = x THEN Tail(s)
    ELSE <<Head(s)>> \o Without(Tail(s), x)

Finished(t) == fut[t] \in {"ok", "failed"}

\* line 177: as_completed(futs) takes the futures already finished and installs
\* its waiter on the others
EnterAsCompleted ==
    /\ pc = "submit"
    /\ Len(submitted) = Len(files)
    /\ snapshot' = {t \in Tasks : Finished(t)}
    /\ waiting' = TRUE
    /\ pc' = "collect"
    /\ UNCHANGED <<glob, nfiles, size, codes, faults, partial, flaky, gone, files, submitted, queue,
                   worker, idleSem, fut, task, waiterQ, uncollected, results,
                   printed, folderVars, svcVars, waited>>

\* lines 178-185: the body of the loop for the future of task t
Process(t) ==
    IF fut[t] = "ok"
    THEN /\ results' = Append(results, t)
         /\ printed' = Append(printed, <<t, "Uploaded">>)
         /\ pc' = pc
    ELSE IF Caught(task[t].exc)
    THEN /\ printed' = Append(printed, <<t, "FAILED">>)
         /\ results' = results
         /\ pc' = pc
    ELSE /\ pc' = "raised"
         /\ UNCHANGED <<results, printed>>

\* the futures as_completed may yield next: those found finished on entry, in
\* the order of a set; then the others, in the order they were added to the waiter
YieldedAnyFinished(snap, q) == snap \cup {q[i] : i \in 1..Len(q)}
Yielded(snap, q) ==
    IF snap # {} THEN snap
    ELSE IF q # <<>> THEN {Head(q)}
    ELSE {}

\* lines 177-185: one turn of the loop
Collect ==
    /\ pc = "collect"
    /\ \E t \in Yielded(snapshot, waiterQ) :
        /\ snapshot' = snapshot \ {t}
        /\ waiterQ' = Without(waiterQ, t)
        /\ uncollected' = Without(uncollected, t)
        /\ Process(t)
    /\ UNCHANGED <<glob, nfiles, size, codes, faults, partial, flaky, gone, files,
                   submitted, queue, worker, idleSem, fut, task, waiting, folderVars, svcVars, waited>>

Processed == {printed[i][1] : i \in 1..Len(printed)}

\* line 186: every future was yielded; the with block ends and results is returned
Return ==
    /\ pc = "collect"
    /\ snapshot = {}
    /\ waiterQ = <<>>
    /\ \A t \in Tasks : Finished(t) /\ t \in Processed
    /\ pc' = "returned"
    /\ waiting' = FALSE
    /\ UNCHANGED <<glob, nfiles, size, codes, faults, partial, flaky, gone, files, submitted, queue,
                   worker, idleSem, fut, task, snapshot, waiterQ, uncollected,
                   results, printed, folderVars, svcVars, waited>>

(* ---------------- the pool threads ------------------------------------- *)
\* the future of t gets its result or its exception: its waiters are told, and
\* the thread is idle again
Complete(w, t, outcome) ==
    /\ fut' = [fut EXCEPT ![t] = outcome]
    /\ worker' = [worker EXCEPT ![w] = 0]
    /\ idleSem' = idleSem + 1
    /\ uncollected' = Append(uncollected, t)
    /\ waiterQ' = IF waiting THEN Append(waiterQ, t) ELSE waiterQ

\* an idle thread takes the next work item and runs lines 115-127: it gets
\* its service, and MediaFileUpload opens the file, which may be gone. Idle
\* threads that have a service are interchangeable, and so are those that
\* have none: the first of its kind stands for whichever gets the item.
Start(w) ==
    /\ w \in 1..Len(worker)
    /\ worker[w] = 0
    /\ \A v \in 1..(w - 1) : worker[v] # 0 \/ (service[v] = 0) # (service[w] = 0)
    /\ queue # <<>>
    /\ service' = ServiceAfter(w)
    /\ built' = BuiltAfter(w)
    /\ LET t == Head(queue) IN
        /\ queue' = Rest(queue)
        /\ \/ /\ t \notin gone
              /\ task' = [task EXCEPT ![t].pc = "send",
                                      ![t].execs = @ + 1,
                                      ![t].tries = 0,
                                      ![t].backoff = INITIAL_BACKOFF,
                                      ![t].svc = ServiceFor(w)]
              /\ fut' = [fut EXCEPT ![t] = "running"]
              /\ worker' = [worker EXCEPT ![w] = t]
              /\ UNCHANGED <<idleSem, uncollected, waiterQ>>
           \/ /\ t \in gone
              /\ task' = [task EXCEPT ![t].pc = "done",
                                      ![t].execs = @ + 1,
                                      ![t].exc = OSError]
              /\ Complete(w, t, "failed")
    /\ UNCHANGED <<pc, glob, nfiles, size, codes, faults, partial, flaky, gone, files, submitted,
                   snapshot, waiting, results, printed, folderVars, waited>>

(* ---------------- request.next_chunk() --------------------------------- *)
\* what the remote answers a request with: an HTTP status, no response
\* object at all (-1), a broken connection (-2), or a 403 that denies the
\* right to write (-3); a plain 403 is the rate limit
ErrorOf(c) ==
    IF c = -3 THEN Denied
    ELSE IF c = -2 THEN OSError
    ELSE IF c = -1 THEN HttpError(PyNone)
    ELSE IF c = 403 THEN RateLimited
    ELSE HttpError(PyResp(c))

\* the failures the remote may answer a request for file t with now
Answers(t) == {c \in codes : c \in RETRYABLE => (t \in flaky /\ faults # 0)}

\* the data request: the bytes from resumable_progress on, one chunk at most.
\* The service keeps the bytes it received; a 308 tells how far it got, a
\* 200 ends the upload.
SendData(t, T, M) ==
    LET p == T.progress
        len == Min(CHUNK_SIZE, M - p)
        Got(k) == [T EXCEPT !.start = p,
                            !.ackedBefore = T.acked,
                            !.received = @ + k,
                            !.acked = IF p + k > @ THEN p + k ELSE @,
                            !.stored = @ \/ p + k >= M]
    IN  {[st |-> [Got(len) EXCEPT !.progress = Got(len).acked],
          exc |-> NoExc,
          response |-> Got(len).stored]}
        \cup
        {[st |-> [Got(k) EXCEPT !.err = TRUE],
          exc |-> ErrorOf(c),
          response |-> FALSE] : k \in (IF partial THEN 0..len ELSE {0}), c \in Answers(t)}

\* one call: the session is opened on the first call; after a failure the
\* service is asked how far it got; then the next chunk is sent
NextChunkReplies(t, T, M) ==
    LET Refused == {[st |-> T, exc |-> ErrorOf(c), response |-> FALSE] : c \in Answers(t)}
    IN  IF ~T.uri
        THEN Refused \cup SendData(t, [T EXCEPT !.uri = TRUE, !.sessions = @ + 1], M)
        ELSE IF T.err
        THEN Refused \cup
             (IF T.stored
              THEN {[st |-> [T EXCEPT !.err = FALSE], exc |-> NoExc, response |-> TRUE]}
              ELSE SendData(t, [T EXCEPT !.progress = T.acked, !.err = FALSE], M))
        ELSE SendData(t, T, M)

\* lines 120-129: the request is built once, before the loop; a retry keeps it
RequestRebuilt(T) == [T EXCEPT !.uri = FALSE, !.progress = 0, !.err = FALSE]
RequestOnRetry(T) == T

\* lines 132-135: a send that succeeded without ending the upload goes on to
\* the next turn of the loop; tries and backoff stay as they are
BudgetResetAfterChunk(T) == [T EXCEPT !.tries = 0, !.backoff = INITIAL_BACKOFF]
AfterChunkSent(T) == T

\* lines 129-147: one turn of the loop, up to the return, the raise or the sleep
NextChunk(w) ==
    /\ w \in 1..Len(worker)
    /\ worker[w] # 0
    /\ LET t == worker[w]
           T == task[t]
       IN
        /\ T.pc = "send"
        /\ \E r \in NextChunkReplies(t, T, size[t]) :
            LET e == r.exc
                S == [r.st EXCEPT !.calls = @ + 1, !.exc = e]
            IN
            /\ faults' = IF e.kind = "HttpError" /\ e.resp.v \in RETRYABLE /\ faults > 0
                         THEN faults - 1 ELSE faults
            /\ IF e = NoExc
               THEN IF r.response
                    THEN /\ task' = [task EXCEPT ![t] = [S EXCEPT !.pc = "done", !.svc = 0]]
                         /\ Complete(w, t, "ok")
                    ELSE /\ task' = [task EXCEPT ![t] = AfterChunkSent(S)]
                         /\ UNCHANGED <<fut, worker, idleSem, uncollected, waiterQ>>
               ELSE IF IsHttpError(e) /\ ShouldRetry(ExtractCode(e), T.tries)
               THEN /\ task' = [task EXCEPT ![t] =
                                  [S EXCEPT !.failed = @ + 1,
                                            !.tries = IncTries(@),
                                            !.sleeps = Append(@, T.backoff),
                                            !.pc = "sleep"]]
                    /\ UNCHANGED <<fut, worker, idleSem, uncollected, waiterQ>>
               ELSE /\ task' = [task EXCEPT ![t] =
                                  [S EXCEPT !.failed = @ + 1, !.pc = "done", !.svc = 0]]
                    /\ Complete(w, t, "failed")
    /\ UNCHANGED <<pc, glob, nfiles, size, codes, partial, flaky, gone, files,
                   submitted,                    queue,
                   snapshot, waiting, results, printed, folderVars, svcVars, waited>>

\* lines 144-146: the sleep ends, the backoff doubles, the loop goes on
Wake(w) ==
    /\ w \in 1..Len(worker)
    /\ worker[w] # 0
    /\ LET t == worker[w]
           T == task[t]
       IN
        /\ T.pc = "sleep"
        /\ task' = [task EXCEPT ![t] =
                      [RequestOnRetry(T) EXCEPT !.backoff = NextBackoff(T.backoff),
                                                !.pc = "send"]]
    /\ UNCHANGED <<pc, glob, nfiles, size, codes, faults, partial, flaky, gone, files, submitted, queue,
                   worker, idleSem, fut, snapshot, waiting, waiterQ, uncollected,
                   results, printed, folderVars, svcVars, waited>>

Threads == 1..(MAX_WORKERS + 1)

\* lines 189-192: the program is run again, in a new process, over the same
\* folder and the drive as the last run left it
RunAgain ==
    /\ pc \in {"returned", "aborted", "raised"}
    /\ runsLeft > 0
    /\ runsLeft' = runsLeft - 1
    /\ pc' = "resolve"
    /\ files' = <<>> /\ submitted' = <<>> /\ queue' = <<>>
    /\ worker' = <<>> /\ idleSem' = 0
    /\ fut' = [t \in Tasks |-> "new"]
    /\ task' = [t \in Tasks |-> NewTask]
    /\ snapshot' = {} /\ waiting' = FALSE /\ waiterQ' = <<>>
    /\ uncollected' = <<>> /\ results' = <<>> /\ printed' = <<>>
    /\ target' = 0 /\ log' = <<>>
    /\ service' = [w \in 0..(MAX_WORKERS + 1) |-> 0]
    /\ built' = [w \in 0..(MAX_WORKERS + 1) |-> 0]
    /\ UNCHANGED <<glob, nfiles, size, codes, faults, partial, flaky, gone, parent, dname,
                   folders, rfaults, resolved, waited>>

Next ==
    \/ ListFolders
    \/ CreateFolder
    \/ GatherFiles
    \/ Submit
    \/ EnterAsCompleted
    \/ Collect
    \/ Return
    \/ \E w \in Threads : Start(w)
    \/ \E w \in Threads : NextChunk(w)
    \/ \E w \in Threads : Wake(w)

\* the program run several times in a row
NextRuns == Next \/ RunAgain

Spec == Init /\ [][Next]_vars

SpecRuns == InitRuns /\ [][NextRuns]_vars

SpecEngine == InitEngine /\ [][Next]_vars

SpecPool == InitPool /\ [][Next]_vars

SpecOrder == InitOrder /\ [][Next]_vars

\* the threads are scheduled fairly, every remote call returns and every sleep
\* ends: a step that can be taken is taken in the end
FairSpec == InitThrottled /\ [][Next]_vars /\ WF_vars(Next)

FairEngine == InitEngine /\ [][Next]_vars /\ WF_vars(Next)

(* ======================= main.py ======================================= *)
\* raised when upload_file calls itself deeper than the interpreter allows
RecursionError == [kind |-> "RecursionError", resp |-> PyNone, reason |-> ""]

\* what main.py has no use for
unusedInMain == <<size, partial, snapshot, waiting, waiterQ, uncollected, results,
                  printed, folderVars>>
inputsOfMain == <<glob, nfiles, codes, flaky, gone>>

\* lines 74-76: authenticate_google_drive has built the one service, on the
\* main thread; the folder holds up to MaxFiles files, some of them gone by
\* the time they are opened; the remote may answer any upload with 404
InitMain ==
    /\ pc = "main"
    /\ nfiles \in 0..MaxFiles
    /\ glob = Reversed(nfiles)
    /\ size = [t \in Tasks |-> 1]
    /\ codes = {404}
    /\ faults = 0
    /\ partial = FALSE
    /\ flaky = {}
    /\ gone \in SUBSET Tasks
    /\ parent = 0 /\ dname = 0 /\ folders = <<>> /\ rfaults = 0 /\ runsLeft = 0
    /\ target = 0 /\ log = <<>> /\ resolved = <<>>
    /\ service = [w \in 0..(MAX_WORKERS + 1) |-> IF w = 0 THEN Instance(0, 1) ELSE 0]
    /\ built = [w \in 0..(MAX_WORKERS + 1) |-> IF w = 0 THEN 1 ELSE 0]
    /\ waited = 0
    /\ files = <<>> /\ submitted = <<>> /\ queue = <<>>
    /\ worker = <<>> /\ idleSem = 0
    /\ fut = [t \in Tasks |-> "new"]
    /\ task = [t \in Tasks |-> NewTask]
    /\ snapshot = {} /\ waiting = FALSE /\ waiterQ = <<>>
    /\ uncollected = <<>> /\ results = <<>> /\ printed = <<>>

\* line 82: the files of the folder, in the order rglob yields them
ListFilesToUpload ==
    /\ pc = "main"
    /\ files' = glob
    /\ pc' = IF files' = <<>> THEN "main_wait" ELSE "main_submit"
    /\ UNCHANGED <<submitted, queue, worker, idleSem, fut, task, faults, svcVars, waited,
                   inputsOfMain, unusedInMain>>

\* line 70: executor.submit(upload_file, service, file, parent_folder_id)
SubmitUploadFile ==
    /\ pc = "main_submit"
    /\ Len(submitted) < Len(files)
    /\ LET t == files[Len(submitted) + 1] IN
        /\ submitted' = Append(submitted, t)
        /\ queue' = Append(queue, t)
        /\ fut' = [fut EXCEPT ![t] = "queued"]
    /\ IF idleSem > 0
       THEN idleSem' = idleSem - 1 /\ worker' = worker
       ELSE /\ idleSem' = idleSem
            /\ worker' = IF Len(worker) < MAX_THREADS THEN Append(worker, 0) ELSE worker
    /\ pc' = IF Len(submitted') = Len(files) THEN "main_wait" ELSE pc
    /\ UNCHANGED <<files, task, faults, svcVars, waited, inputsOfMain, unusedInMain>>

\* the service upload_file works with: the argument of line 70, the one
\* service of line 76
ServiceArgument == service[0]

\* lines 50-60 at nesting depth d on thread w: MediaFileUpload opens the
\* file, which raises when it is gone; else execute() is called
Attempt(t, d) ==
    IF t \in gone
    THEN [task[t] EXCEPT !.pc = "sleep", !.depth = d, !.exc = OSError,
                         !.failed = @ + 1]
    ELSE [task[t] EXCEPT !.pc = "exec", !.depth = d, !.svc = ServiceArgument,
                         !.sessions = @ + 1]

\* an idle thread takes the next work item and calls upload_file
UploadFile(w) ==
    /\ w \in 1..Len(worker)
    /\ worker[w] = 0
    /\ \A v \in 1..(w - 1) : worker[v] # 0
    /\ queue # <<>>
    /\ LET t == Head(queue) IN
        /\ queue' = Rest(queue)
        /\ task' = [task EXCEPT ![t] = [Attempt(t, 1) EXCEPT !.execs = @ + 1]]
        /\ fut' = [fut EXCEPT ![t] = "running"]
        /\ worker' = [worker EXCEPT ![w] = t]
    /\ UNCHANGED <<pc, files, submitted, idleSem, faults, svcVars, waited,
                   inputsOfMain, unusedInMain>>

\* lines 60-63: execute() returns the file or raises; whatever it raises is
\* caught and printed
Execute(w) ==
    /\ w \in 1..Len(worker)
    /\ worker[w] # 0
    /\ LET t == worker[w]
           T == task[t]
       IN
        /\ T.pc = "exec"
        /\ \/ /\ task' = [task EXCEPT ![t] = [T EXCEPT !.pc = "done", !.svc = 0,
                                                       !.calls = @ + 1,
                                                       !.exc = NoExc,
                                                       !.stored = TRUE]]
              /\ fut' = [fut EXCEPT ![t] = "ok"]
              /\ worker' = [worker EXCEPT ![w] = 0]
              /\ idleSem' = idleSem + 1
           \/ /\ \E c \in Answers(t) :
                    task' = [task EXCEPT ![t] = [T EXCEPT !.pc = "sleep", !.svc = 0,
                                                          !.calls = @ + 1,
                                                          !.failed = @ + 1,
                                                          !.exc = ErrorOf(c)]]
              /\ UNCHANGED <<fut, worker, idleSem>>
    /\ UNCHANGED <<pc, files, submitted, queue, faults, svcVars, waited,
                   inputsOfMain, unusedInMain>>

\* lines 64-65: after the sleep upload_file calls itself; past the depth the
\* interpreter allows the call raises RecursionError, inside the except
\* block of every frame below it: the error leaves upload_file
RetryUploadFile(w) ==
    /\ w \in 1..Len(worker)
    /\ worker[w] # 0
    /\ LET t == worker[w]
           T == task[t]
       IN
        /\ T.pc = "sleep"
        /\ IF T.depth < MaxDepth
           THEN /\ task' = [task EXCEPT ![t] = Attempt(t, T.depth + 1)]
                /\ UNCHANGED <<fut, worker, idleSem>>
           ELSE /\ task' = [task EXCEPT ![t] = [T EXCEPT !.pc = "done",
                                                         !.exc = RecursionError]]
                /\ fut' = [fut EXCEPT ![t] = "failed"]
                /\ worker' = [worker EXCEPT ![w] = 0]
                /\ idleSem' = idleSem + 1
    /\ UNCHANGED <<pc, files, submitted, queue, faults, svcVars, waited,
                   inputsOfMain, unusedInMain>>

\* lines 71-72: future.result() of the next future, in the order of
\* submission: it returns, or raises what the task raised
FutureResult ==
    /\ pc = "main_wait"
    /\ waited < Len(submitted)
    /\ LET t == submitted[waited + 1] IN
        /\ Finished(t)
        /\ IF fut[t] = "ok"
           THEN waited' = waited + 1 /\ pc' = pc
           ELSE waited' = waited /\ pc' = "main_unwind"
    /\ UNCHANGED <<files, submitted, queue, worker, idleSem, fut, task, faults,
                   svcVars, inputsOfMain, unusedInMain>>

\* line 69: the with block is left, by the end of the loop or by an exception;
\* the executor joins its threads, which first run every queued task
ExitPool ==
    /\ \/ pc = "main_wait" /\ waited = Len(submitted) /\ pc' = "returned"
       \/ pc = "main_unwind" /\ pc' = "raised"
    /\ \A t \in Tasks : Finished(t)
    /\ UNCHANGED <<files, submitted, queue, worker, idleSem, fut, task, faults,
                   svcVars, waited, inputsOfMain, unusedInMain>>

NextMain ==
    \/ ListFilesToUpload
    \/ SubmitUploadFile
    \/ FutureResult
    \/ ExitPool
    \/ \E w \in Threads : UploadFile(w)
    \/ \E w \in Threads : Execute(w)
    \/ \E w \in Threads : RetryUploadFile(w)

SpecMain == InitMain /\ [][NextMain]_vars

(* ======================= properties ==================================== *)
Running == {t \in Tasks : fut[t] = "running"}
Lines(t, kind) == {i \in 1..Len(printed) : printed[i] = <<t, kind>>}
InResults(t) == {i \in 1..Len(results) : results[i] = t}
\* a failure the retry rule of line 141 takes for transient
Transient(e) == e.kind = "HttpError" /\ e.resp.tag = "resp" /\ e.resp.v \in RETRYABLE
NonRetryable(e) == e # NoExc /\ ~Transient(e)

\* C1: batch isolation. upload_folder_of_videos never raises; when it returns,
\* every task was run to its end, a task whose file was there and whose
\* requests all succeeded is a success whatever the others did, and every
\* failed task counts one FAILED line and no result, every other task one
\* result and one Uploaded line.
C1_BatchIsolation ==
    /\ pc # "raised"
    /\ pc = "returned" =>
        /\ \A t \in Tasks :
            /\ Finished(t)
            /\ task[t].execs = 1
            /\ (t \notin gone /\ task[t].failed = 0) => fut[t] = "ok"
            /\ fut[t] = "failed" =>
                /\ Cardinality(Lines(t, "FAILED")) = 1
                /\ Lines(t, "Uploaded") = {}
                /\ InResults(t) = {}
            /\ fut[t] = "ok" =>
                /\ Cardinality(InResults(t)) = 1
                /\ Cardinality(Lines(t, "Uploaded")) = 1
                /\ Lines(t, "FAILED") = {}
        /\ Len(printed) = nfiles
        /\ Len(results) = Cardinality({t \in Tasks : fut[t] = "ok"})

\* a batch returned with a task whose retries ran out next to a success
C1_Witness ==
    /\ pc = "returned"
    /\ \E t, u \in Tasks :
        /\ fut[t] = "failed" /\ task[t].exc = HttpError(PyResp(503))
        /\ fut[u] = "ok"

ExpectedSleeps == <<1, 2, 4, 8, 16, 32, 32, 32>>
\* every call of next_chunk made for t so far failed with a transient status
OnlyTransient(t) ==
    /\ task[t].calls > 0
    /\ task[t].failed = task[t].calls
    /\ Transient(task[t].exc)

\* C2: retry exhaustion. While every chunk send of a task fails with a
\* transient status, its sleeps are 1, 2, 4, 8, 16, 32, 32, 32 in that order,
\* one after each failed send; the task fails exactly at the send after the
\* 8th retry's sleep (the 9th), without another sleep.
C2_RetryExhaustion ==
    \A t \in Tasks : OnlyTransient(t) =>
        /\ Len(task[t].sleeps) <= MAX_RETRIES
        /\ task[t].sleeps = SubSeq(ExpectedSleeps, 1, Len(task[t].sleeps))
        /\ (fut[t] = "failed") <=> (task[t].calls = MAX_RETRIES + 1)
        /\ fut[t] = "failed" => task[t].sleeps = ExpectedSleeps
        /\ fut[t] # "failed" => Len(task[t].sleeps) = task[t].calls
        /\ fut[t] # "ok"

C2_Witness ==
    \E t \in Tasks :
        /\ OnlyTransient(t)
        /\ fut[t] = "failed"
        /\ task[t].calls = MAX_RETRIES + 1
        /\ task[t].tries = MAX_RETRIES

\* C3: non-retryable short circuit. When a call of next_chunk fails with
\* anything but a retryable status, the task has failed in that very step:
\* there was no sleep for this failure, the thread has left the task, and
\* nothing of the task changes afterwards (no further send, no sleep).
C3_State ==
    \A t \in Tasks : (task[t].failed > 0 /\ NonRetryable(task[t].exc)) =>
        /\ fut[t] = "failed"
        /\ task[t].pc = "done"
        /\ Len(task[t].sleeps) = task[t].failed - 1
        /\ \A w \in 1..Len(worker) : worker[w] # t
C3_Step ==
    \A t \in Tasks : (task[t].failed > 0 /\ NonRetryable(task[t].exc)) =>
        task'[t] = task[t]
C3_NonRetryableShortCircuit == []C3_State /\ [][C3_Step]_vars

\* a 404 after three retries
C3_Witness ==
    \E t \in Tasks :
        /\ task[t].exc = HttpError(PyResp(404))
        /\ task[t].tries = 3
        /\ fut[t] = "failed"

\* C4: concurrency bound. At most MAX_WORKERS tasks have started and not
\* finished (sleeping ones included), the pool has at most MAX_WORKERS
\* threads, and each task in flight is on exactly one thread.
C4_ConcurrencyBound ==
    /\ Cardinality(Running) <= MAX_WORKERS
    /\ Len(worker) <= MAX_WORKERS
    /\ \A t \in Running : Cardinality({w \in 1..Len(worker) : worker[w] = t}) = 1
    /\ \A w \in 1..Len(worker) : worker[w] # 0 => worker[w] \in Running

\* the pool is full, one of its tasks sleeps in backoff, and a task waits
C4_Witness ==
    /\ Cardinality(Running) = MAX_WORKERS
    /\ queue # <<>>
    /\ \E t \in Running : task[t].pc = "sleep"

\* chunks of a file of m units
Chunks(m) == (m + CHUNK_SIZE - 1) \div CHUNK_SIZE

\* C5: termination. One call of _upload_with_resumable makes at most one
\* successful send per chunk and at most MAX_RETRIES + 1 failed ones; under
\* fair scheduling every task reaches a terminal outcome and
\* upload_folder_of_videos returns.
C5_Bounded ==
    \A t \in Tasks :
        /\ task[t].failed <= MAX_RETRIES + 1
        /\ task[t].calls - task[t].failed <= Chunks(size[t])
C5_Termination ==
    /\ []C5_Bounded
    /\ <>[](pc = "returned" /\ \A t \in Tasks : Finished(t))

\* a task that used every failed send the ceiling allows, in a batch that returned
C5_Witness ==
    /\ pc = "returned"
    /\ \E t \in Tasks : task[t].failed = MAX_RETRIES + 1

\* C6: exactly-once processing. A file is submitted at most once, its task is
\* started at most once and is on at most one thread, and at most one outcome
\* line is printed for it; when the function returns, every file was
\* submitted, run and reported exactly once and nothing is queued or running.
C6_ExactlyOnce ==
    /\ \A t \in Tasks :
        /\ task[t].execs <= 1
        /\ Cardinality({i \in 1..Len(submitted) : submitted[i] = t}) <= 1
        /\ Cardinality(Lines(t, "Uploaded") \cup Lines(t, "FAILED")) <= 1
        /\ Cardinality({w \in 1..Len(worker) : worker[w] = t}) <= 1
    /\ pc = "returned" =>
        /\ Len(submitted) = nfiles
        /\ Len(printed) = nfiles
        /\ queue = <<>>
        /\ Running = {}
        /\ \A w \in 1..Len(worker) : worker[w] = 0
        /\ \A t \in Tasks :
            /\ task[t].execs = 1
            /\ Finished(t)
            /\ Cardinality(Lines(t, "Uploaded") \cup Lines(t, "FAILED")) = 1

\* a batch of two returned, a FAILED line first and an Uploaded line after it
C6_Witness ==
    /\ pc = "returned"
    /\ Len(printed) = 2
    /\ printed[1][2] = "FAILED"
    /\ printed[2][2] = "Uploaded"

\* C7: the returned list holds one entry per submitted task, failures
\* included. (The list of line 171 only ever gets the responses of the
\* successes: a failure is printed at line 185 and kept nowhere.)
C7_ReturnsEveryOutcome ==
    pc = "returned" => Len(results) = Len(files)

\* C8: resume correctness. A task opens one upload session at most; every
\* data request starts at the offset the service had acknowledged when it was
\* sent; the service never takes a byte twice; at success it holds exactly
\* the bytes 0..M of the file.
C8_ResumeCorrectness ==
    \A t \in Tasks :
        /\ task[t].sessions <= 1
        /\ task[t].start # -1 => task[t].start = task[t].ackedBefore
        /\ task[t].received = task[t].acked
        /\ fut[t] = "ok" =>
            /\ task[t].stored
            /\ task[t].acked = size[t]
            /\ task[t].received = size[t]

\* an upload that succeeded after a retry resumed inside a chunk
C8_Witness ==
    \E t \in Tasks :
        /\ fut[t] = "ok"
        /\ task[t].tries >= 1
        /\ task[t].start % CHUNK_SIZE # 0

\* C9: submission determinism. Files are named by their lexicographic rank:
\* whatever the order of the enumeration, the i-th task submitted is file i, and
\* the collection starts only when all files were submitted.
C9_SubmissionOrder ==
    /\ \A i \in 1..Len(submitted) : submitted[i] = i
    /\ pc = "collect" => Len(submitted) = nfiles
    /\ (pc = "returned" /\ nfiles > 0) => Len(submitted) = nfiles

\* the folder enumerated as b, a, c and submitted as a, b, c
C9_Witness ==
    /\ glob = <<2, 1, 3>>
    /\ submitted = <<1, 2, 3>>

\* the task whose outcome this step handles
Handled == printed'[Len(printed')][1]
\* a finished outcome is never left waiting: while one is uncollected the loop
\* has a future to take; once the futures found finished on entry are through,
\* the waiter's list is the uncollected futures in the order they finished
NeverWaits ==
    pc = "collect" =>
        /\ uncollected # <<>> => Yielded(snapshot, waiterQ) # {}
        /\ snapshot = {} => waiterQ = uncollected

\* C10 as stated: outcomes are handled in the order the tasks finished.
C10_InCompletionOrder ==
    printed' # printed => Handled = Head(uncollected)
C10_EntryThenCompletionOrder ==
    printed' # printed =>
        IF snapshot # {} THEN Handled \in snapshot
        ELSE Handled = Head(uncollected)
Live == {i \in 1..Len(folders) : folders[i].name = FolderName /\ ~folders[i].trashed}
Before == {i \in Live : folders[i].by = "before"}

\* C11 as stated: over sequential calls of _ensure_drive_folder with one name,
\* every call returns the same ID, and the calls create one folder when none
\* of that name was there, none otherwise.
C11_SameFolderEveryCall ==
    /\ \A i, j \in 1..Len(resolved) : resolved[i] = resolved[j]
    /\ Cardinality(Created) <= 1
    /\ Before # {} => Created = {}
    /\ (Before = {} /\ resolved # <<>>) => Cardinality(Created) = 1

\* C11, amended: every call that returns gives the ID of a folder of that name
\* that is not in the trash, the same ID each time when at most one such folder
\* was there before the first call; the calls create at most one folder: one,
\* once a call has returned, when no such folder was there before, none
\* otherwise; and a folder is created only by the step that follows a listing
\* without a match.
C11_State ==
    /\ \A i \in 1..Len(resolved) : resolved[i] \in Live
    /\ Cardinality(Before) <= 1 => \A i, j \in 1..Len(resolved) : resolved[i] = resolved[j]
    /\ Cardinality(Created) <= 1
    /\ Before # {} => Created = {}
    /\ (Before = {} /\ resolved # <<>>) => Cardinality(Created) = 1
C11_Step ==
    folders' # folders =>
        /\ pc = "create"
        /\ Live = {}
        /\ log # <<>> /\ log[Len(log)] = "list"
        /\ Len(folders') = Len(folders) + 1
C11_Amended == []C11_State /\ [][C11_Step]_vars

\* two calls returned: the first made the folder, the second found it
C11_Witness ==
    /\ Len(resolved) >= 2
    /\ resolved[1] = resolved[2]
    /\ Created = {resolved[1]}
    /\ runsLeft = 0

\* C12: an explicit folder ID takes precedence. When parent_folder_id is
\* given, whatever drive_folder_name is, the run makes no folder request (no
\* listing, no creation, and the dispatching thread builds no service for
\* one), the folders of the drive stay as they were, the target is that ID
\* and every task submitted has it as its destination.
C12_ExplicitIdPrecedence ==
    parent # 0 =>
        /\ log = <<>>
        /\ resolved = <<>>
        /\ Created = {}
        /\ service[0] = 0
        /\ pc \notin {"create", "aborted"}
        /\ pc # "resolve" => target = parent
        /\ \A t \in Tasks : fut[t] # "new" => task[t].parent = parent

\* a file uploaded into the folder given by its ID, next to a folder name that
\* names another folder of the drive
C12_Witness ==
    /\ parent # 0
    /\ dname # 0
    /\ Live # {} /\ parent \notin Live
    /\ pc = "returned"
    /\ \E t \in Tasks : fut[t] = "ok" /\ task[t].parent = parent

\* C13: folder resolution strictly precedes the fan-out. A run lists at most
\* once and creates at most once, after its listing; while the resolution is
\* under way, and for good once it has failed, nothing is submitted, the pool
\* has no thread, no task has started and no upload session is open; and
\* when a task is submitted the resolution is over and has given the target.
C13_ResolutionBeforeFanOut ==
    /\ log \in {<<>>, <<"list">>, <<"list", "create">>}
    /\ log # <<>> => parent = 0 /\ Owner(service[0]) = 0 /\ service[0] # 0
    /\ pc \in {"resolve", "create", "aborted"} =>
        /\ submitted = <<>> /\ queue = <<>> /\ worker = <<>>
        /\ \A w \in Threads : service[w] = 0
        /\ \A t \in Tasks :
            fut[t] = "new" /\ task[t].execs = 0 /\ task[t].sessions = 0
    /\ pc = "aborted" => target = 0 /\ log # <<>>
    /\ submitted # <<>> =>
        /\ pc \notin {"resolve", "create", "aborted"}
        /\ parent = 0 => log # <<>> /\ target \in Live
        /\ \A i \in 1..Len(submitted) : task[submitted[i]].parent = target

\* the creation of the folder failed: the run ended with its file not submitted
C13_Witness ==
    /\ pc = "aborted"
    /\ log = <<"list", "create">>
    /\ nfiles = 1
    /\ Created = {}

\* the threads that have built a service
Builders == {w \in 0..(MAX_WORKERS + 1) : built[w] > 0}

\* C14: per-worker session ownership. A thread builds one service at most and
\* keeps getting that one; the upload a thread runs uses the service that
\* thread built; no two uploads in flight use the same service; a run builds
\* at most MAX_WORKERS + 1 services.
C14_SessionOwnership ==
    /\ \A w \in 0..(MAX_WORKERS + 1) :
        /\ built[w] <= 1
        /\ service[w] # 0 => service[w] = Instance(w, 1) /\ built[w] = 1
        /\ service[w] = 0 => built[w] = 0
    /\ \A w \in 1..Len(worker) : worker[w] # 0 =>
        /\ task[worker[w]].svc # 0
        /\ task[worker[w]].svc = service[w]
        /\ Owner(task[worker[w]].svc) = w
    /\ \A t, u \in Running : t # u => task[t].svc # task[u].svc
    /\ Cardinality(Builders) <= MAX_WORKERS + 1

\* more files than threads, all handled: the dispatching thread and every
\* pool thread have built their service, and a thread has run two uploads
C14_Witness ==
    /\ pc = "returned"
    /\ nfiles > MAX_WORKERS
    /\ Cardinality(Builders) = MAX_WORKERS + 1

\* C15: batch completion in main.py. upload_files_concurrently does not
\* raise: when it is over it has returned, every task has come to its end and
\* every future's result was taken. (A file whose every attempt fails makes
\* upload_file call itself until the interpreter refuses: the RecursionError
\* is the task's outcome and line 72 raises it.)
C15_BatchReturns ==
    /\ pc \notin {"main_unwind", "raised"}
    /\ pc = "returned" =>
        /\ waited = nfiles
        /\ \A t \in Tasks : Finished(t)

\* C16: session exclusivity in main.py. No two uploads are inside execute()
\* on the same service at the same time. (Line 70 hands the one service of
\* line 76 to every task.)
C16_SessionExclusive ==
    \A t, u \in Tasks :
        (t # u /\ task[t].pc = "exec" /\ task[u].pc = "exec") =>
            task[t].svc # task[u].svc

\* min(2^r, 32)
DoublingCapped(r) == Min(2 ^ r, BACKOFF_CAP)

\* C17: backoff arithmetic. In every state of an upload the next sleep is
\* min(2^r, 32) with r the retries made so far, whatever sends succeeded in
\* between: the i-th sleep of a task lasted min(2^(i-1), 32), the first one
\* 1, each later one min(twice the one before, 32), none below 1 or above 32.
C17_BackoffArithmetic ==
    \A t \in Tasks : (task[t].execs > 0 /\ t \notin gone) =>
        /\ Len(task[t].sleeps) = task[t].tries
        /\ task[t].pc \in {"send", "done"} => task[t].backoff = DoublingCapped(task[t].tries)
        /\ task[t].pc = "sleep" =>
            /\ task[t].backoff = DoublingCapped(task[t].tries - 1)
            /\ task[t].sleeps[task[t].tries] = task[t].backoff
        /\ \A i \in 1..Len(task[t].sleeps) :
            /\ task[t].sleeps[i] = DoublingCapped(i - 1)
            /\ task[t].sleeps[i] >= INITIAL_BACKOFF
            /\ task[t].sleeps[i] <= BACKOFF_CAP
            /\ i = 1 => task[t].sleeps[i] = INITIAL_BACKOFF
            /\ i > 1 => task[t].sleeps[i] = Min(task[t].sleeps[i - 1] * 2, BACKOFF_CAP)

\* the eighth sleep of an upload whose first chunk the service has taken
C17_Witness ==
    \E t \in Tasks :
        /\ task[t].pc = "sleep"
        /\ task[t].tries = MAX_RETRIES
        /\ task[t].backoff = BACKOFF_CAP
        /\ task[t].acked >= CHUNK_SIZE
        /\ task[t].acked < size[t]

\* C18: a 403 that denies the authorization is a permanent error: the task
\* has failed on the send it answers, with no sleep for it and no retry.
\* (Line 141 looks at the status alone: every 403 is slept on and retried.)
C18_DenialIsPermanent ==
    \A t \in Tasks : (task[t].failed > 0 /\ task[t].exc = Denied) =>
        /\ fut[t] = "failed"
        /\ task[t].pc = "done"
        /\ Len(task[t].sleeps) = task[t].failed - 1

\* C19: the retry budget is per file. The retry counter stays between 0 and
\* MAX_RETRIES and counts the sleeps of the task, at most MAX_RETRIES over
\* all its chunks; no step lowers the counter or the backoff, and a send that
\* succeeds leaves both as they were; a task that has more failed sends than
\* MAX_RETRIES has failed, and the failed send that follows the 8th retry
\* ends the task whatever chunk it was for.
C19_State ==
    \A t \in Tasks :
        /\ task[t].tries \in 0..MAX_RETRIES
        /\ Len(task[t].sleeps) = task[t].tries
        /\ Len(task[t].sleeps) <= MAX_RETRIES
        /\ task[t].failed > MAX_RETRIES => fut[t] = "failed"
        /\ task[t].failed > task[t].tries => fut[t] = "failed"
C19_Step ==
    \A t \in Tasks :
        /\ task[t].execs > 0 =>
            /\ task'[t].tries >= task[t].tries
            /\ task'[t].backoff >= task[t].backoff
        /\ (task'[t].calls > task[t].calls /\ task'[t].failed = task[t].failed) =>
            /\ task'[t].tries = task[t].tries
            /\ task'[t].backoff = task[t].backoff
        /\ (task[t].tries = MAX_RETRIES /\ task'[t].failed > task[t].failed) =>
            fut'[t] = "failed"
C19_RetryBudgetPerFile == []C19_State /\ [][C19_Step]_vars

\* a task that failed on a later chunk: its first chunk went through, and
\* the ninth transient failure of the file ended it
C19_Witness ==
    \E t \in Tasks :
        /\ fut[t] = "failed"
        /\ Transient(task[t].exc)
        /\ task[t].tries = MAX_RETRIES
        /\ task[t].failed = MAX_RETRIES + 1
        /\ task[t].acked >= CHUNK_SIZE
        /\ task[t].calls > task[t].failed

\* C20: the empty batch. The enumeration comes after the folder resolution:
\* nothing is enumerated while the resolution is under way, and when the
\* enumeration starts without a folder ID given, the folder was listed and
\* the target is a folder of the requested name, created by that time when
\* none was there. A run over a folder without files returns an empty list
\* with no pool thread, no task submitted and no upload started.
C20_EmptyBatch ==
    /\ pc \in {"resolve", "create"} => files = <<>>
    /\ (pc = "gather" /\ parent = 0) =>
        /\ log # <<>> /\ log[1] = "list"
        /\ target \in Live
        /\ Before = {} => Created = {target}
        /\ log = <<"list", "create">> => target \in Created
    /\ (nfiles = 0 /\ pc = "returned") =>
        /\ results = <<>>
        /\ files = <<>> /\ submitted = <<>> /\ queue = <<>>
        /\ worker = <<>> /\ idleSem = 0
        /\ \A w \in Threads : service[w] = 0
        /\ parent # 0 => log = <<>> /\ Created = {}
        /\ parent = 0 =>
            /\ log # <<>> /\ log[1] = "list"
            /\ target \in Live
            /\ Before = {} => Created = {target}

\* no file to upload, and yet the run has made the folder
C20_Witness ==
    /\ nfiles = 0
    /\ pc = "returned"
    /\ results = <<>>
    /\ log = <<"list", "create">>
    /\ Created = {target}

====
